---- MODULE Spec2Model ----
(***************************************************************************)
(* Model of legal_team_fallback.py: a Streamlit script that is re-run from *)
(* top to bottom on every user interaction of a session.                   *)
(*                                                                         *)
(* Spec          the script as a whole, two sessions in one process, each  *)
(*               starting fresh (lines 33-38).                             *)
(* SpecUpload    the same script runs, started from every value the        *)
(*               session state can hold, to exercise the document upload   *)
(*               block (lines 82-140) on non-empty session state.          *)
(* SpecAnalysis  initialize_ai_agents, generate_team_analysis and the main *)
(*               analysis interface (lines 143-322), stepped statement by  *)
(*               statement, with the session state and the widget values   *)
(*               they read drawn from bounded sets.                        *)
(*                                                                         *)
(* Texts are sequences of one-character strings.  A Python None is the     *)
(* record None; an object is a record with a type field.                   *)
(***************************************************************************)
EXTENDS Naturals, Sequences, FiniteSets, TLC

VARIABLES
  environ,                  \* os.environ["OPENAI_API_KEY"], process-wide
  tempFiles,                \* files left in the temp directory (delete=False)
  api_key_input,            \* per session: the text_input widget's value
  uploaded_document,        \* per session: the file_uploader widget's value
  document_knowledge_base,  \* per session: st.session_state.document_knowledge_base
  processed_documents,      \* per session: st.session_state.processed_documents
  lastRun,                  \* per session: what the latest script run did
  pc,                       \* SpecAnalysis: position in the analysis code
  caller,                   \* SpecAnalysis: the session whose run is in progress
  frame,                    \* SpecAnalysis: entry and argument of generate_team_analysis
  widgets,                  \* SpecAnalysis: selectbox and text_area values
  agents,                   \* SpecAnalysis: the four locals of generate_team_analysis
  events,                   \* SpecAnalysis: call/return log of the agents' run
  outputs,                  \* SpecAnalysis: responses returned so far, by agent name
  prompt,                   \* SpecAnalysis: the prompt of the latest run call
  result,                   \* SpecAnalysis: what generate_team_analysis returned
  display                   \* SpecAnalysis: what the interface rendered

programVars == <<environ, tempFiles, api_key_input, uploaded_document,
                 document_knowledge_base, processed_documents, lastRun>>
analysisVars == <<pc, caller, frame, widgets, agents, events, outputs, prompt, result, display>>
vars == <<programVars, analysisVars>>

-----------------------------------------------------------------------------
(* Bounds of the model *)

MaxTempFiles == 2
MaxQueryLen == 2
MaxExtra == 1

\* Line 236: the character budget of one embedded response.
TruncLimit == 500
\* Lines 303 and 315: the budget of the report embedded in a tab's prompt.
TabLimit == 300

Sessions == {"s1", "s2"}
Names == {"contract.pdf", "lease.pdf"}
Contents == {"v1", "v2"}
Keys == {"sk-1", "sk-2"}

-----------------------------------------------------------------------------
(* Values *)

None == [type |-> "NoneType"]
Unset == "<unset>"

Documents == [name : Names, content : Contents]

PDFKnowledgeBase(path) == [type |-> "PDFKnowledgeBase", path |-> path]

KbValues == {None} \cup {PDFKnowledgeBase(p) : p \in 1..MaxTempFiles}

\* The names bound in the script's module namespace when the upload block runs.
ModuleNames == {"os", "st", "tempfile", "Agent", "OpenAIChat", "OpenAIEmbedder",
                "DuckDuckGoTools", "PDFKnowledgeBase", "PDFReader"}

NameBound(n) == n \in ModuleNames

\* What the external collaborators of one script run do: which of their calls,
\* in the order of lines 87-107, is the first to raise.  What the verification
\* search finds selects a message only (lines 108-111).
Outcomes == [raises : {"none", "create", "write", "reader", "build", "load", "search"}]

\* The steps of the upload block that call an external collaborator.
CollaboratorSteps == {"write", "reader", "build", "load", "search"}

NoRun == [ingest |-> "none", doc |-> None, steps |-> <<>>, error |-> "none",
          handler |-> "none", pre_kb |-> None, pre_processed |-> {},
          view |-> "warning"]

-----------------------------------------------------------------------------
(* The document upload block, lines 82-140 *)

\* A variant that compares content instead of the name.
SkipIngestionByContent(doc, processed) == doc.content \in processed

\* Line 83: the name-equality check.
SkipIngestion(doc, processed) == doc.name \in processed

\* A variant that stores a handle before the constructor's arguments are evaluated.
ConstructEagerAssign(kb, path, o) ==
  IF o.raises = "reader"
    THEN [ok |-> FALSE, kb |-> PDFKnowledgeBase(path), error |-> "reader"]
  ELSE IF ~NameBound("DocumentChunking")
    THEN [ok |-> FALSE, kb |-> PDFKnowledgeBase(path), error |-> "name"]
  ELSE IF o.raises = "build"
    THEN [ok |-> FALSE, kb |-> PDFKnowledgeBase(path), error |-> "build"]
  ELSE [ok |-> TRUE, kb |-> PDFKnowledgeBase(path), error |-> "none"]

\* Lines 92-99: the right-hand side is evaluated first (PDFReader(), then the
\* name DocumentChunking, then the two constructors); the session's handle is
\* assigned only if all of it returned.
ConstructKnowledgeBase(kb, path, o) ==
  IF o.raises = "reader" THEN [ok |-> FALSE, kb |-> kb, error |-> "reader"]
  ELSE IF ~NameBound("DocumentChunking") THEN [ok |-> FALSE, kb |-> kb, error |-> "name"]
  ELSE IF o.raises = "build" THEN [ok |-> FALSE, kb |-> kb, error |-> "build"]
  ELSE [ok |-> TRUE, kb |-> PDFKnowledgeBase(path), error |-> "none"]

Outcome(ingest, kb, processed, temp, steps, error, handler) ==
  [ingest |-> ingest, kb |-> kb, processed |-> processed, temp |-> temp,
   steps |-> steps, error |-> error, handler |-> handler]

\* Lines 82-140.  temp counts the temp files the run leaves behind.
UploadBlock(kb, processed, doc, path, o) ==
  IF doc = None THEN Outcome("none", kb, processed, 0, <<>>, "none", "none")
  ELSE IF SkipIngestion(doc, processed)
    THEN Outcome("skipped", kb, processed, 0, <<>>, "none", "none")
  ELSE IF o.raises = "create"
    THEN Outcome("attempted", kb, processed, 0, <<"write">>, "write", "outer")
  ELSE IF o.raises = "write"
    THEN Outcome("attempted", kb, processed, 1, <<"write">>, "write", "outer")
  ELSE
    LET c == ConstructKnowledgeBase(kb, path, o) IN
    IF ~c.ok
      THEN Outcome("attempted", c.kb, processed, 1, <<"write", "construct">>, c.error, "outer")
    ELSE IF o.raises = "load"
      THEN Outcome("attempted", c.kb, processed, 1,
                   <<"write", "construct", "load">>, "load", "outer")
    ELSE
      \* lines 105-113: the verification has a handler of its own; line 115 follows it
      Outcome("attempted", c.kb, processed \cup {doc.name}, 1,
              <<"write", "construct", "load", "search", "add">>,
              IF o.raises = "search" THEN "search" ELSE "none",
              IF o.raises = "search" THEN "inner" ELSE "none")

\* Lines 52-58.
SetApiKey(env, key) == IF key # "" THEN key ELSE env

\* Lines 243 and 320: which branch of the main interface is rendered.
MainView(kb) == IF kb # None THEN "interface" ELSE "warning"

\* One run of the script for session s with the widget values key and doc.
ScriptRun(s, key, doc) ==
  \E o \in Outcomes :
    LET r == UploadBlock(document_knowledge_base[s], processed_documents[s], doc,
                         tempFiles + 1, o) IN
    /\ tempFiles + r.temp <= MaxTempFiles
    /\ environ' = SetApiKey(environ, key)
    /\ tempFiles' = tempFiles + r.temp
    /\ document_knowledge_base' = [document_knowledge_base EXCEPT ![s] = r.kb]
    /\ processed_documents' = [processed_documents EXCEPT ![s] = r.processed]
    /\ lastRun' = [lastRun EXCEPT ![s] =
                     [ingest |-> r.ingest, doc |-> doc, steps |-> r.steps,
                      error |-> r.error, handler |-> r.handler,
                      pre_kb |-> document_knowledge_base[s],
                      pre_processed |-> processed_documents[s],
                      view |-> MainView(r.kb)]]

-----------------------------------------------------------------------------
(* User interactions; each one re-runs the script *)

EnterApiKey(s) ==
  \E k \in Keys \cup {""} :
    /\ api_key_input' = [api_key_input EXCEPT ![s] = k]
    /\ ScriptRun(s, k, uploaded_document[s])
    /\ UNCHANGED <<uploaded_document, analysisVars>>

UploadDocument(s) ==
  \E d \in Documents :
    /\ uploaded_document' = [uploaded_document EXCEPT ![s] = d]
    /\ ScriptRun(s, api_key_input[s], d)
    /\ UNCHANGED <<api_key_input, analysisVars>>

RemoveDocument(s) ==
  /\ uploaded_document[s] # None
  /\ uploaded_document' = [uploaded_document EXCEPT ![s] = None]
  /\ ScriptRun(s, api_key_input[s], None)
  /\ UNCHANGED <<api_key_input, analysisVars>>

NoFrame == [entry |-> "none", analysis_query |-> <<>>]

NoDisplay == [clicked |-> FALSE, type |-> "", query |-> <<>>, shown |-> <<>>]

\* No call of generate_team_analysis is in progress: its locals do not exist.
NoLocals ==
  /\ agents = <<None, None, None, None>>
  /\ events = <<>>
  /\ outputs = <<>>
  /\ prompt = None
  /\ result = None

AnalysisIdle ==
  /\ pc = "idle"
  /\ caller = "s1"
  /\ frame = NoFrame
  /\ widgets = [analysis_type |-> "Contract Review", custom_query |-> <<>>]
  /\ NoLocals
  /\ display = NoDisplay

Init ==
  /\ environ = Unset
  /\ tempFiles = 0
  /\ api_key_input = [s \in Sessions |-> ""]
  /\ uploaded_document = [s \in Sessions |-> None]
  /\ document_knowledge_base = [s \in Sessions |-> None]
  /\ processed_documents = [s \in Sessions |-> {}]
  /\ lastRun = [s \in Sessions |-> NoRun]
  /\ AnalysisIdle

Next ==
  \E s \in Sessions :
    \/ EnterApiKey(s)
    \/ UploadDocument(s)
    \/ RemoveDocument(s)

Spec == Init /\ [][Next]_vars

-----------------------------------------------------------------------------
(* The upload block on every value of the session state *)

InitUpload ==
  /\ environ = Unset
  /\ tempFiles \in 0..MaxTempFiles
  /\ api_key_input = [s \in Sessions |-> ""]
  /\ uploaded_document = [s \in Sessions |-> None]
  /\ document_knowledge_base \in [Sessions -> KbValues]
  /\ \A s \in Sessions :
       document_knowledge_base[s] # None => document_knowledge_base[s].path <= tempFiles
  /\ processed_documents \in [Sessions -> SUBSET Names]
  /\ lastRun = [s \in Sessions |-> NoRun]
  /\ AnalysisIdle

NextUpload ==
  \E s \in Sessions :
    \/ UploadDocument(s)
    \/ RemoveDocument(s)

SpecUpload == InitUpload /\ [][NextUpload]_vars

-----------------------------------------------------------------------------
(* Properties of the upload block *)

Attempted(s) == lastRun[s].ingest = "attempted"

Failed(s) == Attempted(s) /\ lastRun[s].error # "none"

\* Under Spec no run ever stores a handle or a name: the main interface of
\* lines 243-319 is never rendered.
InterfaceNeverRendered ==
  \A s \in Sessions :
    /\ document_knowledge_base[s] = None
    /\ processed_documents[s] = {}
    /\ lastRun[s].view = "warning"

\* C1: when an upload attempt raised, the exception was caught by one of the
\* block's handlers and the session's knowledge-base handle is the one it had
\* before the attempt.
C1_FailedAttemptKeepsHandle ==
  \A s \in Sessions :
    Failed(s) =>
      /\ lastRun[s].handler \in {"inner", "outer"}
      /\ document_knowledge_base[s] = lastRun[s].pre_kb

\* C1 witness: an attempt on a session that held a handle raised while the
\* knowledge base was being constructed, and the handle is still the old one.
C1_Witness ==
  \E s \in Sessions :
    /\ Failed(s)
    /\ lastRun[s].steps = <<"write", "construct">>
    /\ lastRun[s].pre_kb # None
    /\ document_knowledge_base[s] = lastRun[s].pre_kb

\* C2: the knowledge-base handle is non-null exactly when processed_documents
\* is non-empty.
C2_HandleIffIngested ==
  \A s \in Sessions :
    (document_knowledge_base[s] # None) <=> (processed_documents[s] # {})

\* C2 witness: a session after an upload attempt.
C2_Witness ==
  \E s \in Sessions :
    /\ Attempted(s)
    /\ document_knowledge_base[s] = None
    /\ processed_documents[s] = {}

\* C3: a fresh session that uploads contract.pdf, with no collaborator
\* failing, ends with processed_documents = {"contract.pdf"} and the analysis
\* interface rendered.
C3_EndToEnd ==
  \A s \in Sessions :
    ( /\ Attempted(s)
      /\ lastRun[s].doc.name = "contract.pdf"
      /\ lastRun[s].pre_kb = None
      /\ lastRun[s].pre_processed = {}
      /\ lastRun[s].error \notin CollaboratorSteps )
    => /\ processed_documents[s] = {"contract.pdf"}
       /\ lastRun[s].view = "interface"

\* C5: a run whose uploaded file's name is already in processed_documents
\* performs no ingestion step and leaves the session state as it was.
C5_KnownNameSkipsIngestion ==
  \A s \in Sessions :
    ( /\ lastRun[s].doc # None
      /\ lastRun[s].doc.name \in lastRun[s].pre_processed )
    => /\ lastRun[s].steps = <<>>
       /\ document_knowledge_base[s] = lastRun[s].pre_kb
       /\ processed_documents[s] = lastRun[s].pre_processed

\* C5 witness: a file with a processed name was uploaded and skipped.
C5_Witness ==
  \E s \in Sessions :
    /\ lastRun[s].doc # None
    /\ lastRun[s].doc.name \in lastRun[s].pre_processed
    /\ lastRun[s].ingest = "skipped"

\* What the ingestion and the agents of session s read: its session state and
\* the process environment holding the API credential.
SessionView(s) == <<document_knowledge_base[s], processed_documents[s], environ>>

\* C8: no input of one session changes what another session reads.
C8_SessionsIndependent ==
  [][\A t \in Sessions :
       (EnterApiKey(t) \/ UploadDocument(t) \/ RemoveDocument(t))
         => \A s \in Sessions \ {t} : SessionView(s)' = SessionView(s)]_vars

-----------------------------------------------------------------------------
(* initialize_ai_agents, generate_team_analysis, the main analysis interface *)

Min(a, b) == IF a < b THEN a ELSE b

Alphabet == <<"a", "b", "c">>

Text(n) == [i \in 1..n |-> Alphabet[(i % 3) + 1]]

TextLengths == {0, TruncLimit - 1, TruncLimit} \cup {TruncLimit + k : k \in 1..MaxExtra}

QueryChars == {" ", "a"}

CustomQueries == UNION {[1..k -> QueryChars] : k \in 0..MaxQueryLen}

\* Line 256.
AnalysisTypes == {"Contract Review", "Legal Research", "Risk Assessment",
                  "Compliance Check", "Custom Query"}

\* Lines 263-280; a literal is a text of one piece.
predefined_analysis_queries ==
  [t \in AnalysisTypes \ {"Custom Query"} |->
     CASE t = "Contract Review" ->
            <<"Analyze this document, contract, or agreement using all available data from the knowledge base. Identify key terms, obligations, and risks in detail.">>
       [] t = "Legal Research" ->
            <<"Using all available data from the knowledge base, find relevant legal cases and precedents related to this document, contract, or agreement. Provide detailed references and sources.">>
       [] t = "Risk Assessment" ->
            <<"Extract all data from the knowledge base and identify potential legal risks in this document, contract, or agreement. Detail specific risk areas and reference sections of the text.">>
       [] t = "Compliance Check" ->
            <<"Evaluate this document, contract, or agreement for compliance with legal regulations using all available data from the knowledge base. Highlight any areas of concern and suggest corrective actions.">>]

Queries == CustomQueries \cup {predefined_analysis_queries[t] : t \in DOMAIN predefined_analysis_queries}

\* Lines 259-281.
AnalysisQueryInput(w) ==
  IF w.analysis_type = "Custom Query" THEN w.custom_query
  ELSE predefined_analysis_queries[w.analysis_type]

\* A variant that tests for None, which the text_area never yields.
QueryRejectedIfNone(q) == FALSE

\* Line 284: `not analysis_query_input`, true of the empty string only.
QueryRejected(q) == Len(q) = 0

StrObject(text) == [type |-> "str", value |-> text]

\* Line 222.
InitializationError ==
  StrObject("Error: AI agents not properly initialized. Please ensure a document is uploaded and processed.")

Agent(name, knowledge, tools) ==
  [type |-> "Agent", name |-> name, model |-> "gpt-4o-mini", knowledge |-> knowledge,
   search_knowledge |-> (knowledge # None), tools |-> tools]

\* A variant that builds the agents whatever the knowledge base is.
InitializeAgentsUnguarded(kb) ==
  <<Agent("LegalAdvisor", kb, {"DuckDuckGoTools"}), Agent("ContractExaminer", kb, {}),
    Agent("RiskAssessor", kb, {}), Agent("AnalysisCoordinator", None, {})>>

\* Lines 143-215.
initialize_ai_agents(kb) ==
  IF kb # None
    THEN <<Agent("LegalAdvisor", kb, {"DuckDuckGoTools"}), Agent("ContractExaminer", kb, {}),
           Agent("RiskAssessor", kb, {}), Agent("AnalysisCoordinator", None, {})>>
    ELSE <<None, None, None, None>>

\* Line 221: all([...]).
AllAgents(a) == \A i \in 1..4 : a[i] # None

\* A response of run: str is the text str() yields of it, content its content
\* field.  The code reads str of the specialists' responses and content of the
\* coordinator's; the field it does not read is not varied.
RunResponse(str, content) == [type |-> "RunResponse", str |-> str, content |-> content]

SpecialistResponses == {RunResponse(Text(n), Text(1)) : n \in TextLengths}

CoordinatorResponses == {RunResponse(Text(1), Text(n)) : n \in {0, 1, TabLimit + 1}}

Responses(a) == IF a = "AnalysisCoordinator" THEN CoordinatorResponses ELSE SpecialistResponses

\* str(x) of a response.
Str(r) == r.str

\* A variant that embeds the whole text.
TruncateNothing(t) == t

\* Lines 236-238: t[:500].
Truncate(t) == SubSeq(t, 1, Min(Len(t), TruncLimit))

\* Lines 303 and 315: t[:300].
TruncateTab(t) == SubSeq(t, 1, Min(Len(t), TabLimit))

\* An f-string: its literal text with a {} for each interpolated value.
FString(template, args) == [type |-> "str", template |-> template, args |-> args]

\* Lines 225-227.
SpecialistPrompt(a, q) ==
  CASE a = "LegalAdvisor" -> FString("Research legal aspects of: {}", <<q>>)
    [] a = "ContractExaminer" -> FString("Analyze contract for: {}", <<q>>)
    [] a = "RiskAssessor" -> FString("Assess risks and strategy for: {}", <<q>>)

CoordinatorTemplate ==
  "Create a concise legal analysis report covering:\n1. Key findings from research\n2. Contract analysis highlights\n3. Risk assessment summary\n4. Strategic recommendations\n\nResearch: {}...\nContract: {}...\nStrategy: {}..."

\* Lines 230-239.
CoordinatorPrompt(o) ==
  FString(CoordinatorTemplate,
          <<Truncate(Str(o["LegalAdvisor"])), Truncate(Str(o["ContractExaminer"])),
            Truncate(Str(o["RiskAssessor"]))>>)

\* A variant with the second and third run statement exchanged.
RunOrderSwapped == <<"LegalAdvisor", "RiskAssessor", "ContractExaminer", "AnalysisCoordinator">>

\* Lines 225-230: the order of the four run statements.
RunOrder == <<"LegalAdvisor", "ContractExaminer", "RiskAssessor", "AnalysisCoordinator">>

Idle == pc \in {"idle", "raised"} \/ (pc = "returned" /\ frame.entry = "direct")

Rendered == document_knowledge_base[caller] # None

ResetLocals ==
  /\ agents' = <<None, None, None, None>>
  /\ events' = <<>>
  /\ outputs' = <<>>
  /\ prompt' = None
  /\ result' = None

\* Lines 254-257: a new selection re-runs the script; the text area is rendered
\* anew when its branch is taken.
SelectAnalysisType ==
  /\ Idle /\ Rendered
  /\ \E t \in AnalysisTypes :
       widgets' = [analysis_type |-> t, custom_query |-> <<>>]
  /\ pc' = "idle" /\ frame' = NoFrame /\ display' = NoDisplay
  /\ ResetLocals
  /\ UNCHANGED <<programVars, caller>>

\* Lines 260-261.
EnterCustomQuery ==
  /\ Idle /\ Rendered
  /\ widgets.analysis_type = "Custom Query"
  /\ \E q \in CustomQueries : widgets' = [widgets EXCEPT !.custom_query = q]
  /\ pc' = "idle" /\ frame' = NoFrame /\ display' = NoDisplay
  /\ ResetLocals
  /\ UNCHANGED <<programVars, caller>>

Shown(tab, text) == [tab |-> tab, text |-> text]

\* Lines 283-288: the Analyze button.
ClickAnalyze ==
  /\ Idle /\ Rendered
  /\ LET q == AnalysisQueryInput(widgets) IN
       IF QueryRejected(q)
         THEN /\ display' = [clicked |-> TRUE, type |-> widgets.analysis_type, query |-> q,
                             shown |-> <<Shown("warning", <<"Please enter a query.">>)>>]
              /\ pc' = "idle" /\ frame' = NoFrame
         ELSE /\ display' = [clicked |-> TRUE, type |-> widgets.analysis_type, query |-> q,
                             shown |-> <<>>]
              /\ pc' = "init_agents"
              /\ frame' = [entry |-> "interface", analysis_query |-> q]
  /\ ResetLocals
  /\ UNCHANGED <<programVars, caller, widgets>>

\* A call of generate_team_analysis(q) on its own, in the session state in
\* which the interface does not render the button that calls it.
CallGenerateTeamAnalysis ==
  /\ Idle /\ ~Rendered
  /\ \E q \in Queries : frame' = [entry |-> "direct", analysis_query |-> q]
  /\ pc' = "init_agents" /\ display' = NoDisplay
  /\ ResetLocals
  /\ UNCHANGED <<programVars, caller, widgets>>

\* Lines 219-222.
InitializeAgents ==
  /\ pc = "init_agents"
  /\ agents' = initialize_ai_agents(document_knowledge_base[caller])
  /\ IF AllAgents(agents')
       THEN pc' = "run" /\ result' = result
       ELSE pc' = "returned" /\ result' = InitializationError
  /\ UNCHANGED <<programVars, caller, frame, widgets, events, outputs, prompt, display>>

InFlight == Len(events) % 2 = 1

\* Lines 225-230: the next run statement calls its agent.
CallRun ==
  /\ pc = "run" /\ ~InFlight
  /\ LET a == RunOrder[(Len(events) \div 2) + 1] IN
       /\ events' = Append(events, [op |-> "call", agent |-> a])
       /\ prompt' = IF a = "AnalysisCoordinator" THEN CoordinatorPrompt(outputs)
                    ELSE SpecialistPrompt(a, frame.analysis_query)
  /\ UNCHANGED <<programVars, caller, frame, widgets, agents, outputs, result, display, pc>>

\* The call in flight returns; after the fourth statement, line 240 returns.
ReturnRun ==
  /\ pc = "run" /\ InFlight
  /\ LET a == events[Len(events)].agent IN
     \E r \in Responses(a) :
       /\ events' = Append(events, [op |-> "return", agent |-> a, response |-> r])
       /\ outputs' = (a :> r) @@ outputs
       /\ IF Len(events') = 2 * Len(RunOrder)
            THEN pc' = "returned" /\ result' = outputs'["AnalysisCoordinator"]
            ELSE pc' = pc /\ result' = result
  /\ UNCHANGED <<programVars, caller, frame, widgets, agents, prompt, display>>

\* The call in flight raises; nothing in the script catches it.
RaiseRun ==
  /\ pc = "run" /\ InFlight
  /\ events' = Append(events, [op |-> "raise", agent |-> events[Len(events)].agent])
  /\ pc' = "raised"
  /\ UNCHANGED <<programVars, caller, frame, widgets, agents, outputs, prompt, result, display>>

\* Lines 288-295: the call has returned, its locals are gone and its value is
\* analysis_response; the Analysis tab.  A str has no content attribute.
ShowAnalysis ==
  /\ pc = "returned" /\ frame.entry = "interface"
  /\ IF result.type = "str"
       THEN pc' = "raised" /\ display' = display
       ELSE /\ pc' = "tab_keypoints"
            /\ display' = [display EXCEPT !.shown = Append(@, Shown("Analysis",
                 IF Len(result.content) > 0 THEN result.content
                 ELSE <<"No response generated.">>))]
  /\ agents' = <<None, None, None, None>>
  /\ events' = <<>>
  /\ outputs' = <<>>
  /\ prompt' = None
  /\ UNCHANGED <<programVars, caller, frame, widgets, result>>

TabTemplate(tab) ==
  IF tab = "Key Points" THEN "Extract 5 key legal points from: {}..."
  ELSE "Provide 3 specific legal recommendations from: {}..."

\* Lines 297-307 and 309-319: a tab builds the agents again and runs the
\* coordinator on the report's first 300 characters.
ShowTab(tab, at, next) ==
  /\ pc = at
  /\ agents' = initialize_ai_agents(document_knowledge_base[caller])
  /\ IF agents'[4] = None
       THEN /\ display' = [display EXCEPT !.shown =
                 Append(@, Shown(tab, <<"Team Coordinator agent not available">>))]
            /\ pc' = next /\ prompt' = prompt
       ELSE /\ prompt' = FString(TabTemplate(tab), <<TruncateTab(result.content)>>)
            /\ \/ \E r \in CoordinatorResponses :
                    /\ display' = [display EXCEPT !.shown = Append(@, Shown(tab,
                         IF Len(r.content) > 0 THEN r.content ELSE <<"No summary generated.">>))]
                    /\ pc' = next
               \/ pc' = "raised" /\ display' = display
  /\ UNCHANGED <<programVars, caller, frame, widgets, events, outputs, result>>

ShowKeyPoints == ShowTab("Key Points", "tab_keypoints", "tab_recommendations")

ShowRecommendations == ShowTab("Recommendations", "tab_recommendations", "idle")

InitAnalysis ==
  /\ environ = Unset
  /\ tempFiles = MaxTempFiles
  /\ api_key_input = [s \in Sessions |-> ""]
  /\ uploaded_document = [s \in Sessions |-> None]
  /\ document_knowledge_base \in [Sessions -> {None, PDFKnowledgeBase(1)}]
  /\ processed_documents = [s \in Sessions |-> {}]
  /\ lastRun = [s \in Sessions |-> NoRun]
  /\ pc = "idle"
  /\ caller \in Sessions
  /\ frame = NoFrame
  /\ widgets = [analysis_type |-> "Contract Review", custom_query |-> <<>>]
  /\ NoLocals
  /\ display = NoDisplay

NextAnalysis ==
  \/ SelectAnalysisType
  \/ EnterCustomQuery
  \/ ClickAnalyze
  \/ CallGenerateTeamAnalysis
  \/ InitializeAgents
  \/ CallRun
  \/ ReturnRun
  \/ RaiseRun
  \/ ShowAnalysis
  \/ ShowKeyPoints
  \/ ShowRecommendations

SpecAnalysis == InitAnalysis /\ [][NextAnalysis]_vars

-----------------------------------------------------------------------------
(* Properties of the analysis code *)

NoAgents == <<None, None, None, None>>

\* C4: with a null knowledge base the agent factory yields four nulls, no
\* agent's run is ever called, and generate_team_analysis returns the
\* initialization error string.
C4_NoDocumentBlocksAnalysis ==
  document_knowledge_base[caller] = None =>
    /\ events = <<>>
    /\ pc = "returned" => (agents = NoAgents /\ result = InitializationError)

\* C4 witness: generate_team_analysis has returned in a session without a
\* knowledge base.
C4_Witness ==
  /\ document_knowledge_base[caller] = None
  /\ pc = "returned"
  /\ frame.entry = "direct"
  /\ result = InitializationError

Whitespace == {" "}

Blank(q) == \A i \in 1..Len(q) : q[i] \in Whitespace

Rejected ==
  /\ display.shown = <<Shown("warning", <<"Please enter a query.">>)>>
  /\ pc = "idle"
  /\ agents = NoAgents
  /\ events = <<>>

CustomClicked == display.clicked /\ display.type = "Custom Query"

\* C6 as stated: a custom query that is empty or only whitespace is rejected
\* with a warning, and no agent is constructed or invoked.
C6_BlankQueryRejected == (CustomClicked /\ Blank(display.query)) => Rejected

\* C6 as amended: an empty custom query is rejected with a warning, and no
\* agent is constructed or invoked.
C6_EmptyQueryRejected == (CustomClicked /\ Len(display.query) = 0) => Rejected

\* C6 witness: Analyze was clicked on an empty custom query and the warning is shown.
C6_Witness == CustomClicked /\ Len(display.query) = 0 /\ Rejected

CoordinatorCalled == prompt # None /\ prompt.template = CoordinatorTemplate

Specialists == <<"LegalAdvisor", "ContractExaminer", "RiskAssessor">>

\* C9 as stated: each text embedded in the coordinator prompt has exactly 500
\* characters, the first 500 of the response's text.
C9_ExactlyTruncLimit ==
  CoordinatorCalled =>
    \A i \in 1..3 :
      /\ Len(prompt.args[i]) = TruncLimit
      /\ \A j \in 1..TruncLimit : prompt.args[i][j] = Str(outputs[Specialists[i]])[j]

\* C9 as amended: each text embedded in the coordinator prompt is the
\* response's text cut to at most 500 characters: its first 500 characters, or
\* all of it when it is shorter.
C9_AtMostTruncLimit ==
  CoordinatorCalled =>
    \A i \in 1..3 :
      LET e == prompt.args[i]
          t == Str(outputs[Specialists[i]]) IN
      /\ Len(e) = IF Len(t) < TruncLimit THEN Len(t) ELSE TruncLimit
      /\ \A j \in 1..Len(e) : e[j] = t[j]

\* C9 witness: the coordinator prompt was built from a response longer than the
\* budget and one shorter than it.
C9_Witness ==
  /\ CoordinatorCalled
  /\ \E i \in 1..3 : Len(Str(outputs[Specialists[i]])) > TruncLimit
  /\ \E i \in 1..3 : Len(Str(outputs[Specialists[i]])) < TruncLimit

ExpectedOrder == <<"LegalAdvisor", "ContractExaminer", "RiskAssessor", "AnalysisCoordinator">>

\* C10: the run calls happen one at a time in the order advisor, examiner,
\* risk-assessor, coordinator, each starting after the previous one returned;
\* the coordinator is called once, after the three specialists returned, and
\* the function returns the coordinator's response.
C10_SequentialInOrder ==
  /\ Len(events) <= 8
  /\ \A i \in 1..Len(events) :
       /\ events[i].agent = ExpectedOrder[(i + 1) \div 2]
       /\ i % 2 = 1 => events[i].op = "call"
       /\ i % 2 = 0 => events[i].op \in {"return", "raise"}
       /\ events[i].op = "raise" => i = Len(events)
  /\ (pc = "returned" /\ agents # NoAgents) =>
       /\ Len(events) = 8
       /\ events[8].op = "return"
       /\ result = events[8].response

\* C10 witness: a call with four agents has returned.
C10_Witness == pc = "returned" /\ agents # NoAgents /\ Len(events) = 8

====
